---- MODULE Spec2Model ----
(***************************************************************************)
(* A model of the three audiobook utilities of hiive/audiobook_combiner:   *)
(*   extract_chapters.py    (chapter filter, hierarchy, extraction)        *)
(*   overwrite_chapters.py  (chapter spec file -> FFMETADATA1 timeline)    *)
(*   combine_audio.py       (part files -> combined book with chapters)    *)
(*                                                                         *)
(* Python floats are IEEE-754 binary64 values.  They are modelled exactly  *)
(* as mantissa/exponent pairs with round-to-nearest-even, the mantissa     *)
(* being an arbitrary-precision natural kept as a little-endian sequence   *)
(* of 15-bit limbs (TLC's own integers are 32 bits wide).                  *)
(***************************************************************************)
EXTENDS Integers, Sequences, FiniteSets, TLC

(***************************************************************************)
(* Arbitrary-precision naturals: <<>> is 0, least significant limb first,  *)
(* no zero limb at the top.                                                *)
(***************************************************************************)
LimbBits == 3 * 5
Base == 2 ^ LimbBits

RECURSIVE BNorm(_)
BNorm(x) ==
  IF x = <<>> THEN <<>>
  ELSE IF x[Len(x)] = 0 THEN BNorm(SubSeq(x, 1, Len(x) - 1))
  ELSE x

RECURSIVE BFromInt(_)
BFromInt(n) ==
  IF n = 0 THEN <<>> ELSE <<n % Base>> \o BFromInt(n \div Base)

RECURSIVE BToInt(_)
BToInt(x) ==
  IF x = <<>> THEN 0 ELSE Head(x) + Base * BToInt(Tail(x))

RECURSIVE BAddC(_, _, _)
BAddC(x, y, c) ==
  IF x = <<>> /\ y = <<>> THEN (IF c = 0 THEN <<>> ELSE <<c>>)
  ELSE LET a == IF x = <<>> THEN 0 ELSE Head(x)
           b == IF y = <<>> THEN 0 ELSE Head(y)
           s == a + b + c
           xs == IF x = <<>> THEN <<>> ELSE Tail(x)
           ys == IF y = <<>> THEN <<>> ELSE Tail(y)
       IN <<s % Base>> \o BAddC(xs, ys, s \div Base)

BAdd(x, y) == BAddC(x, y, 0)

\* x - y - b for x >= y + b
RECURSIVE BSubB(_, _, _)
BSubB(x, y, b) ==
  IF x = <<>> THEN <<>>
  ELSE LET c == IF y = <<>> THEN 0 ELSE Head(y)
           d == Head(x) - c - b
           ys == IF y = <<>> THEN <<>> ELSE Tail(y)
       IN IF d < 0 THEN <<d + Base>> \o BSubB(Tail(x), ys, 1)
          ELSE <<d>> \o BSubB(Tail(x), ys, 0)

BSub(x, y) == BNorm(BSubB(x, y, 0))

\* x * k + c for 0 <= k < Base
RECURSIVE BMulC(_, _, _)
BMulC(x, k, c) ==
  IF x = <<>> THEN (IF c = 0 THEN <<>> ELSE <<c>>)
  ELSE LET p == Head(x) * k + c
       IN <<p % Base>> \o BMulC(Tail(x), k, p \div Base)

BMulSmall(x, k) == BNorm(BMulC(x, k, 0))

\* x \div k and x % k for 0 < k < Base, from the top limb down
RECURSIVE BDivR(_, _, _)
BDivR(x, k, r) ==
  IF x = <<>> THEN [q |-> <<>>, r |-> r]
  ELSE LET cur == r * Base + x[Len(x)]
           rest == BDivR(SubSeq(x, 1, Len(x) - 1), k, cur % k)
       IN [q |-> rest.q \o <<cur \div k>>, r |-> rest.r]

BDivSmall(x, k) ==
  LET d == BDivR(x, k, 0) IN [q |-> BNorm(d.q), r |-> d.r]

\* -1, 0 or 1 as x <, =, > y
RECURSIVE BCmpTop(_, _)
BCmpTop(x, y) ==
  IF x = <<>> THEN 0
  ELSE IF x[Len(x)] < y[Len(y)] THEN -1
  ELSE IF x[Len(x)] > y[Len(y)] THEN 1
  ELSE BCmpTop(SubSeq(x, 1, Len(x) - 1), SubSeq(y, 1, Len(y) - 1))

BCmp(x, y) ==
  IF Len(x) < Len(y) THEN -1
  ELSE IF Len(x) > Len(y) THEN 1
  ELSE BCmpTop(x, y)

RECURSIVE Zeros(_)
Zeros(n) == IF n = 0 THEN <<>> ELSE <<0>> \o Zeros(n - 1)

\* x * 2^n
BShl(x, n) ==
  IF x = <<>> THEN <<>>
  ELSE Zeros(n \div LimbBits) \o BMulSmall(x, 2 ^ (n % LimbBits))

\* x \div 2^n
BShr(x, n) ==
  IF n \div LimbBits >= Len(x) THEN <<>>
  ELSE BDivSmall(SubSeq(x, n \div LimbBits + 1, Len(x)), 2 ^ (n % LimbBits)).q

RECURSIVE IntBitLen(_)
IntBitLen(n) == IF n = 0 THEN 0 ELSE 1 + IntBitLen(n \div 2)

BBitLen(x) ==
  IF x = <<>> THEN 0 ELSE LimbBits * (Len(x) - 1) + IntBitLen(x[Len(x)])

BIsOdd(x) == x # <<>> /\ Head(x) % 2 = 1

\* x * 10^k
RECURSIVE BMulPow10(_, _)
BMulPow10(x, k) ==
  IF k = 0 THEN x
  ELSE LET y == BMulSmall(x, 10)
       IN IF Len(y) >= 0 THEN BMulPow10(y, k - 1) ELSE <<>>

\* x \div 10^k, and whether anything was cut off
RECURSIVE BDivPow10(_, _, _)
BDivPow10(x, k, sticky) ==
  IF k = 0 THEN [q |-> x, sticky |-> sticky]
  ELSE LET d == BDivSmall(x, 10)
       IN IF d.r # 0 \/ sticky THEN BDivPow10(d.q, k - 1, TRUE)
          ELSE BDivPow10(d.q, k - 1, FALSE)

(***************************************************************************)
(* IEEE-754 binary64 (Python float): neg, mantissa m and exponent e stand  *)
(* for (-1)^neg * m * 2^e, with m of exactly MantBits bits, or m = 0.      *)
(* The values met here are far from the overflow and subnormal ranges.     *)
(***************************************************************************)
MantBits == 53

FZero == [neg |-> FALSE, m |-> <<>>, e |-> 0]

\* The double nearest to (M + t) * 2^e, ties to even; 0 < t < 1 when sticky,
\* else t = 0.  A sticky M must be longer than MantBits.
RoundToDouble(M, e, sticky) ==
  LET L == BBitLen(M) IN
  IF L = 0 THEN FZero
  ELSE IF L <= MantBits
    THEN [neg |-> FALSE, m |-> BShl(M, MantBits - L), e |-> e - (MantBits - L)]
  ELSE LET s == L - MantBits
           q == BShr(M, s)
           rem == BSub(M, BShl(q, s))
           c == BCmp(rem, BShl(<<1>>, s - 1))
           up == c > 0 \/ (c = 0 /\ (sticky \/ BIsOdd(q)))
           q1 == IF up THEN BAdd(q, <<1>>) ELSE q
       IN IF BBitLen(q1) > MantBits
            THEN [neg |-> FALSE, m |-> BShr(q1, 1), e |-> e + s + 1]
            ELSE [neg |-> FALSE, m |-> q1, e |-> e + s]

\* float(Decimal(..)) and float("..") of the decimal N / 10^k: correctly rounded
FloatOfDecimal(N, k) ==
  LET S == 64 + 4 * k
      d == BDivPow10(BShl(N, S), k, FALSE)
  IN RoundToDouble(d.q, -S, d.sticky)

\* -1, 0, 1 comparing magnitudes
FCmpMag(a, b) ==
  IF a.m = <<>> THEN (IF b.m = <<>> THEN 0 ELSE -1)
  ELSE IF b.m = <<>> THEN 1
  ELSE IF a.e < b.e THEN -1
  ELSE IF a.e > b.e THEN 1
  ELSE BCmp(a.m, b.m)

FCmp(a, b) ==
  IF a.neg /\ ~b.neg THEN -1
  ELSE IF ~a.neg /\ b.neg THEN 1
  ELSE IF a.neg THEN FCmpMag(b, a)
  ELSE FCmpMag(a, b)

FGe(a, b) == FCmp(a, b) >= 0

FMin(x, y) == IF x < y THEN x ELSE y

\* a + b for a, b >= 0
FAdd(a, b) ==
  IF a.m = <<>> THEN b
  ELSE IF b.m = <<>> THEN a
  ELSE LET lo == FMin(a.e, b.e)
       IN RoundToDouble(BAdd(BShl(a.m, a.e - lo), BShl(b.m, b.e - lo)), lo, FALSE)

\* a - b for a, b >= 0
FSub(a, b) ==
  LET lo == FMin(a.e, b.e)
      x == BShl(a.m, a.e - lo)
      y == BShl(b.m, b.e - lo)
  IN IF BCmp(x, y) >= 0 THEN RoundToDouble(BSub(x, y), lo, FALSE)
     ELSE [RoundToDouble(BSub(y, x), lo, FALSE) EXCEPT !.neg = TRUE]

\* a * k for a >= 0 and a natural k < Base
FMulSmall(a, k) == RoundToDouble(BMulSmall(a.m, k), a.e, FALSE)

FOne == RoundToDouble(<<1>>, 0, FALSE)

\* int(Decimal(a).quantize(Decimal('1'))) for a >= 0: the default context
\* rounds half to even
QuantizeInt(a) ==
  IF a.m = <<>> THEN <<>>
  ELSE IF a.e >= 0 THEN BShl(a.m, a.e)
  ELSE LET s == -a.e
           q == BShr(a.m, s)
           rem == BSub(a.m, BShl(q, s))
           c == BCmp(rem, BShl(<<1>>, s - 1))
       IN IF c > 0 \/ (c = 0 /\ BIsOdd(q)) THEN BAdd(q, <<1>>) ELSE q

(***************************************************************************)
(* State.  prog is the utility being run; every run starts in pc = "start" *)
(* with its inputs chosen, and ends in pc = "done" or pc = "exit".         *)
(***************************************************************************)
VARIABLES
  prog,               \* "extract", "overwrite" or "combine"
  pc,                 \* the position of the run
  \* extract_chapters.py
  mode,               \* "display" (-d), "extract" (-o DIR), "no_output" (neither),
                      \* "hierarchy" (build_chapter_hierarchy called on the list)
  probe,              \* the chapters ffprobe reports (see Chapter)
  filtered,           \* filtered_chapters
  hierarchy,          \* what build_chapter_hierarchy returned
  printed,            \* the lines display_chapter_hierarchy printed
  header,             \* Total Chapters printed by display_chapters, -1 if none
  ei,                 \* position of the extraction loop in filtered
  chapter_counter,
  chapter_names,
  processed_chapters

extractVars == <<mode, probe, filtered, hierarchy, printed, header, ei,
                 chapter_counter, chapter_names, processed_chapters>>

VARIABLES
  \* overwrite_chapters.py
  entry,              \* "main", or the function called on its own:
                      \* "create_metadata_file", "parse_duration"
  chapters_file,      \* the lines of the chapters file, each a sequence of characters
  duration_str,       \* the argument of parse_duration called on its own
  total_seconds,      \* what it returned
  line_number,        \* the line read_chapters is at
  chapters,           \* chapters: <<[title, duration]>>
  idx,                \* the chapter create_metadata_file is at
  current_time,
  metadata,           \* the [CHAPTER] blocks written: <<[START, END, title]>>
  metadata_file,      \* whether chapters_metadata.txt exists
  muxed,              \* whether apply_metadata has run ffmpeg
  error_line          \* the line number read_chapters reported, 0 if none

overwriteVars == <<entry, chapters_file, duration_str, total_seconds, line_number,
                   chapters, idx, current_time, metadata, metadata_file, muxed,
                   error_line>>

VARIABLES
  \* combine_audio.py
  part_files,         \* the part files get_files found, in order
  dry_run,
  chapter_titles,     \* the titles given, <<>> when none were
  chapter_threshold,
  ffprobe_durations,  \* what ffprobe prints as the duration of each temp file
  temp_files,         \* temp_files
  on_disk,            \* the files the run has created and not removed
  ti,                 \* position of the loops of combine_files
  previous_time,
  offsets,            \* offsets: <<[start_time, end_time]>>
  chapter_blocks,     \* the [CHAPTER] blocks written: <<[START, END, TITLE]>>
  result,             \* what combine_files returned: "True" or "False"; "raised"
                      \* when an exception left it, "none" before it returns
  args,               \* args.combine, args.clean
  cover_image,        \* cover_image: "_temp_cover.jpg", or "None"
  ffmpeg_runs         \* how many times ffmpeg has been run

combineVars == <<part_files, dry_run, chapter_titles, chapter_threshold,
                 ffprobe_durations, temp_files, on_disk, ti, previous_time,
                 offsets, chapter_blocks, result, args, cover_image, ffmpeg_runs>>

vars == <<prog, pc, extractVars, overwriteVars, combineVars>>

otherThanExtract == <<overwriteVars, combineVars>>
otherThanOverwrite == <<extractVars, combineVars>>
otherThanCombine == <<extractVars, overwriteVars>>

\* the variables of overwrite_chapters.py while another utility runs
IdleOverwrite ==
  /\ entry = "main"
  /\ chapters_file = <<>>
  /\ duration_str = <<>>
  /\ total_seconds = FZero
  /\ line_number = 0
  /\ chapters = <<>>
  /\ idx = 0
  /\ current_time = FZero
  /\ metadata = <<>>
  /\ metadata_file = FALSE
  /\ muxed = FALSE
  /\ error_line = 0

\* the variables of combine_audio.py while another utility runs
IdleCombine ==
  /\ part_files = <<>>
  /\ dry_run = FALSE
  /\ chapter_titles = <<>>
  /\ chapter_threshold = 0
  /\ ffprobe_durations = <<>>
  /\ temp_files = <<>>
  /\ on_disk = {}
  /\ ti = 0
  /\ previous_time = [N |-> <<>>, k |-> 0]
  /\ offsets = <<>>
  /\ chapter_blocks = <<>>
  /\ result = "none"
  /\ args = [combine |-> FALSE, clean |-> FALSE]
  /\ cover_image = "None"
  /\ ffmpeg_runs = 0

(***************************************************************************)
(* extract_chapters.py                                                     *)
(***************************************************************************)
\* Times ffprobe may print, in tenths of a second: 0.0, 0.4, 1.4, 1.9, 3.0
Times == {0, 4, 14, 19, 30}
MaxChapters == 3

\* float(c.get('start_time', 0)) of a time printed as t tenths of a second
float_time(t) == FloatOfDecimal(BFromInt(t), 1)

\* A chapter as ffprobe reports it: start and end are the printed times.
\* start_time and end_time are their float() values and duration is
\* float(end_time) - float(start_time); the code computes them again at every
\* use, here they are computed once and kept with the chapter.
Chapter(a, b) ==
  LET s == float_time(a)
      e == float_time(b)
  IN [start |-> a, end |-> b, start_time |-> s, end_time |-> e,
      duration |-> FSub(e, s)]

Intervals ==
  {Chapter(p[1], p[2]) : p \in {q \in Times \X Times : q[1] <= q[2]}}

\* The list of the spec's example: (0,10), (1,4), (5,9), (10,20) seconds
ExampleList ==
  << Chapter(0, 100), Chapter(10, 40), Chapter(50, 90), Chapter(100, 200) >>

IntervalLists ==
  UNION {[1..n -> Intervals] : n \in 0..MaxChapters} \cup {ExampleList}

\* ffprobe numbers the chapters it reports
WithIds(l) == [i \in 1..Len(l) |-> [id |-> i] @@ l[i]]

ProbeOutputs == {WithIds(l) : l \in IntervalLists}

\* the same lists with a title tag on every chapter, the same for all
TitledProbeOutputs ==
  {[i \in 1..Len(l) |-> [title |-> <<"A">>] @@ l[i]] : l \in ProbeOutputs}

\* float(end_time) - float(start_time) >= 1.0
LongEnough(c) == FGe(c.duration, FOne)

RECURSIVE SelectSeq2(_, _)
SelectSeq2(sq, i) ==
  IF i > Len(sq) THEN <<>>
  ELSE IF LongEnough(sq[i]) THEN <<sq[i]>> \o SelectSeq2(sq, i + 1)
  ELSE SelectSeq2(sq, i + 1)

\* [c for c in chapters if float(end_time) - float(start_time) >= 1.0]
filter_chapters(chapter_list) == SelectSeq2(chapter_list, 1)

\* sorted(..., key=float(start_time)): stable, an element goes after every
\* element whose key is not greater
RECURSIVE InsertSorted(_, _)
InsertSorted(sq, c) ==
  IF sq = <<>> THEN <<c>>
  ELSE IF FCmp(sq[Len(sq)].start_time, c.start_time) <= 0
    THEN Append(sq, c)
  ELSE Append(InsertSorted(SubSeq(sq, 1, Len(sq) - 1), c), sq[Len(sq)])

RECURSIVE SortedPrefix(_, _)
SortedPrefix(sq, n) ==
  IF n = 0 THEN <<>> ELSE InsertSorted(SortedPrefix(sq, n - 1), sq[n])

sorted_by_start(chapter_list) == SortedPrefix(chapter_list, Len(chapter_list))

\* PopStack keeping a stack entry that ends exactly where the chapter starts
RECURSIVE PopStackStrict(_, _, _)
PopStackStrict(stack, nodes, chapter_start) ==
  IF stack # <<>> /\ FCmp(chapter_start, nodes[stack[Len(stack)]].end_time) > 0
    THEN PopStackStrict(SubSeq(stack, 1, Len(stack) - 1), nodes, chapter_start)
  ELSE stack

\* PopStack comparing with the start of the stack entry instead of its end
RECURSIVE PopStackByStart(_, _, _)
PopStackByStart(stack, nodes, chapter_start) ==
  IF stack # <<>> /\ FGe(chapter_start, nodes[stack[Len(stack)]].start_time)
    THEN PopStackByStart(SubSeq(stack, 1, Len(stack) - 1), nodes, chapter_start)
  ELSE stack

\* while stack and chapter_start >= stack[-1]['end_time']: stack.pop()
RECURSIVE PopStack(_, _, _)
PopStack(stack, nodes, chapter_start) ==
  IF stack # <<>> /\ FGe(chapter_start, nodes[stack[Len(stack)]].end_time)
    THEN PopStack(SubSeq(stack, 1, Len(stack) - 1), nodes, chapter_start)
  ELSE stack

\* BuildLoop attaching the node to the bottom of the stack instead of its top
RECURSIVE BuildLoopOutermost(_, _, _, _, _)
BuildLoopOutermost(nodes, i, stack, subchapters, top) ==
  IF i > Len(nodes) THEN [nodes |-> nodes, subchapters |-> subchapters, top |-> top]
  ELSE LET st == PopStack(stack, nodes, nodes[i].start_time)
       IN IF st # <<>>
            THEN BuildLoopOutermost(nodes, i + 1, Append(st, i),
                           [subchapters EXCEPT ![st[1]] = Append(@, i)], top)
            ELSE BuildLoopOutermost(nodes, i + 1, <<i>>, subchapters, Append(top, i))

\* The loop of build_chapter_hierarchy.  Nodes are named by their position in
\* the sorted list: stack and the subchapters lists hold these names, as the
\* code's lists hold references to the one node object.
RECURSIVE BuildLoop(_, _, _, _, _)
BuildLoop(nodes, i, stack, subchapters, top) ==
  IF i > Len(nodes) THEN [nodes |-> nodes, subchapters |-> subchapters, top |-> top]
  ELSE LET st == PopStack(stack, nodes, nodes[i].start_time)
       IN IF st # <<>>
            THEN BuildLoop(nodes, i + 1, Append(st, i),
                           [subchapters EXCEPT ![st[Len(st)]] = Append(@, i)], top)
            ELSE BuildLoop(nodes, i + 1, <<i>>, subchapters, Append(top, i))

build_chapter_hierarchy(chapter_list) ==
  LET sorted == sorted_by_start(chapter_list)
      nodes == [i \in 1..Len(sorted) |->
                  [id |-> sorted[i].id,
                   start_time |-> sorted[i].start_time,
                   end_time |-> sorted[i].end_time]]
  IN BuildLoop(nodes, 1, <<>>, [i \in 1..Len(sorted) |-> <<>>], <<>>)

NoHierarchy == [nodes |-> <<>>, subchapters |-> <<>>, top |-> <<>>]

\* DisplayLoop printing the later siblings of a node ahead of its subchapters
RECURSIVE DisplayLoopSiblingsFirst(_, _, _)
DisplayLoopSiblingsFirst(h, todo, out) ==
  IF todo = <<>> THEN out
  ELSE LET n == todo[1][1]
           level == todo[1][2]
           line == [indent |-> level, id |-> h.nodes[n].id,
                    start_time |-> h.nodes[n].start_time,
                    duration |-> FSub(h.nodes[n].end_time, h.nodes[n].start_time)]
           subs == [k \in 1..Len(h.subchapters[n]) |->
                      <<h.subchapters[n][k], level + 1>>]
       IN DisplayLoopSiblingsFirst(h, Tail(todo) \o subs, Append(out, line))

\* display_chapter_hierarchy(hierarchy, level): one line per node, then the
\* lines of its subchapters one level deeper, then the node's later siblings.
\* todo holds the calls still to make, innermost first: <<node, level>>.
RECURSIVE DisplayLoop(_, _, _)
DisplayLoop(h, todo, out) ==
  IF todo = <<>> THEN out
  ELSE LET n == todo[1][1]
           level == todo[1][2]
           line == [indent |-> level, id |-> h.nodes[n].id,
                    start_time |-> h.nodes[n].start_time,
                    duration |-> FSub(h.nodes[n].end_time, h.nodes[n].start_time)]
           subs == [k \in 1..Len(h.subchapters[n]) |->
                      <<h.subchapters[n][k], level + 1>>]
       IN DisplayLoop(h, subs \o Tail(todo), Append(out, line))

display_chapter_hierarchy(h) ==
  DisplayLoop(h, [k \in 1..Len(h.top) |-> <<h.top[k], 0>>], <<>>)

Modes == {"display", "extract", "no_output", "hierarchy"}

InputsExtract ==
  /\ mode \in Modes
  /\ probe \in ProbeOutputs \cup (IF mode = "extract" THEN TitledProbeOutputs ELSE {})
  /\ filtered = <<>>
  /\ hierarchy = NoHierarchy
  /\ printed = <<>>
  /\ header = -1
  /\ ei = 0
  /\ chapter_counter = 0
  /\ chapter_names = <<>>
  /\ processed_chapters = {}

IdleExtract ==
  /\ mode = "display"
  /\ probe = <<>>
  /\ filtered = <<>>
  /\ hierarchy = NoHierarchy
  /\ printed = <<>>
  /\ header = -1
  /\ ei = 0
  /\ chapter_counter = 0
  /\ chapter_names = <<>>
  /\ processed_chapters = {}

\* __main__ with --display: display_chapters is called when at least one
\* chapter is left by the filter
MainDisplay ==
  /\ prog = "extract" /\ pc = "start" /\ mode = "display"
  /\ UNCHANGED otherThanExtract
  /\ filtered' = filter_chapters(probe)
  /\ pc' = IF Len(filter_chapters(probe)) >= 1 THEN "display_chapters" ELSE "done"
  /\ UNCHANGED <<prog, mode, probe, hierarchy, printed, header, ei,
                 chapter_counter, chapter_names, processed_chapters>>

\* display_chapters: probes the file again, filters, prints the count, builds
\* and prints the hierarchy
DisplayChapters ==
  /\ prog = "extract" /\ pc = "display_chapters"
  /\ UNCHANGED otherThanExtract
  /\ LET f == filter_chapters(probe)
         h == build_chapter_hierarchy(f)
     IN IF probe = <<>> \/ f = <<>>
          THEN UNCHANGED <<filtered, hierarchy, printed, header>>
          ELSE /\ filtered' = f
               /\ header' = Len(f)
               /\ hierarchy' = h
               /\ printed' = display_chapter_hierarchy(h)
  /\ pc' = "done"
  /\ UNCHANGED <<prog, mode, probe, ei, chapter_counter, chapter_names,
                 processed_chapters>>

\* __main__ without --display and without --output: sys.exit(1)
MainNoOutput ==
  /\ prog = "extract" /\ pc = "start" /\ mode = "no_output"
  /\ UNCHANGED otherThanExtract
  /\ pc' = "exit"
  /\ UNCHANGED <<prog, extractVars>>

\* extract_all_chapters -> extract_chapters(input_file, output_dir, "0"): one
\* or no chapter left by the filter returns [], else a ChapterExtractor is made
ExtractChapters ==
  /\ prog = "extract" /\ pc = "start" /\ mode = "extract"
  /\ UNCHANGED otherThanExtract
  /\ filtered' = filter_chapters(probe)
  /\ IF Len(filter_chapters(probe)) <= 1
       THEN /\ pc' = "done"
            /\ UNCHANGED <<chapter_counter, chapter_names, processed_chapters>>
       ELSE /\ pc' = "extractor"
            /\ chapter_counter' = 1
            /\ chapter_names' = <<>>
            /\ processed_chapters' = {}
  /\ UNCHANGED <<prog, mode, probe, hierarchy, printed, header, ei>>

\* ChapterExtractor.extract_chapters up to its loop: probes and filters again
ExtractorStart ==
  /\ prog = "extract" /\ pc = "extractor"
  /\ UNCHANGED otherThanExtract
  /\ LET f == filter_chapters(probe)
     IN IF probe = <<>> \/ Len(f) <= 1
          THEN pc' = "done" /\ UNCHANGED <<filtered, ei>>
          ELSE pc' = "loop" /\ filtered' = f /\ ei' = 1
  /\ UNCHANGED <<prog, mode, probe, hierarchy, printed, header,
                 chapter_counter, chapter_names, processed_chapters>>

\* chapter_tags.get('title', f"Chapter {chapter.get('id', 'Unknown')}")
chapter_title(c) == IF "title" \in DOMAIN c THEN c.title ELSE <<"Chapter", c.id>>

\* ExtractOne counting the chapters ffmpeg failed on as well
ExtractOneCountingFailures ==
  /\ prog = "extract" /\ pc = "loop" /\ ei <= Len(filtered)
  /\ UNCHANGED otherThanExtract
  /\ LET chapter == filtered[ei]
         start_time == chapter.start_time
         end_time == chapter.end_time
         chapter_key == <<chapter_title(chapter), start_time, end_time>>
     IN IF ~LongEnough(chapter)
          THEN UNCHANGED <<chapter_counter, chapter_names, processed_chapters>>
        ELSE IF chapter_key \in processed_chapters
          THEN UNCHANGED <<chapter_counter, chapter_names, processed_chapters>>
        ELSE /\ processed_chapters' = processed_chapters \cup {chapter_key}
             /\ chapter_counter' = chapter_counter + 1
             /\ \E ok \in BOOLEAN :
                  IF ok
                    THEN chapter_names' =
                           Append(chapter_names,
                                  [n |-> chapter_counter, id |-> chapter.id])
                    ELSE UNCHANGED chapter_names
  /\ ei' = ei + 1
  /\ UNCHANGED <<prog, pc, mode, probe, filtered, hierarchy, printed, header>>

\* One pass of the loop of ChapterExtractor.extract_chapters; ok is whether
\* ffmpeg extracted the chapter (CalledProcessError otherwise)
ExtractOne ==
  /\ prog = "extract" /\ pc = "loop" /\ ei <= Len(filtered)
  /\ UNCHANGED otherThanExtract
  /\ LET chapter == filtered[ei]
         start_time == chapter.start_time
         end_time == chapter.end_time
         chapter_key == <<chapter_title(chapter), start_time, end_time>>
     IN IF ~LongEnough(chapter)
          THEN UNCHANGED <<chapter_counter, chapter_names, processed_chapters>>
        ELSE IF chapter_key \in processed_chapters
          THEN UNCHANGED <<chapter_counter, chapter_names, processed_chapters>>
        ELSE /\ processed_chapters' = processed_chapters \cup {chapter_key}
             /\ \E ok \in BOOLEAN :
                  IF ok
                    THEN /\ chapter_names' =
                              Append(chapter_names,
                                     [n |-> chapter_counter, id |-> chapter.id])
                         /\ chapter_counter' = chapter_counter + 1
                    ELSE UNCHANGED <<chapter_counter, chapter_names>>
  /\ ei' = ei + 1
  /\ UNCHANGED <<prog, pc, mode, probe, filtered, hierarchy, printed, header>>

\* the loop is over: extract_chapters returns chapter_names
ExtractDone ==
  /\ prog = "extract" /\ pc = "loop" /\ ei > Len(filtered)
  /\ UNCHANGED otherThanExtract
  /\ pc' = "done"
  /\ UNCHANGED <<prog, extractVars>>

\* build_chapter_hierarchy and display_chapter_hierarchy called on a chapter
\* list as it is
BuildAndDisplay ==
  /\ prog = "extract" /\ pc = "start" /\ mode = "hierarchy"
  /\ UNCHANGED otherThanExtract
  /\ LET h == build_chapter_hierarchy(probe)
     IN /\ hierarchy' = h
        /\ printed' = display_chapter_hierarchy(h)
  /\ pc' = "done"
  /\ UNCHANGED <<prog, mode, probe, filtered, header, ei, chapter_counter,
                 chapter_names, processed_chapters>>

NextExtract ==
  \/ MainDisplay
  \/ DisplayChapters
  \/ MainNoOutput
  \/ ExtractChapters
  \/ ExtractorStart
  \/ ExtractOne
  \/ ExtractDone
  \/ BuildAndDisplay

InitExtract ==
  /\ prog = "extract" /\ pc = "start"
  /\ InputsExtract /\ IdleOverwrite /\ IdleCombine

SpecExtract == InitExtract /\ [][NextExtract]_vars

(***************************************************************************)
(* overwrite_chapters.py.  A string is a sequence of characters.           *)
(***************************************************************************)
Digits == {"0", "1", "2", "3", "4", "5", "6", "7", "8", "9"}

DigitValue ==
  [c \in Digits |->
     CASE c = "0" -> 0 [] c = "1" -> 1 [] c = "2" -> 2 [] c = "3" -> 3
       [] c = "4" -> 4 [] c = "5" -> 5 [] c = "6" -> 6 [] c = "7" -> 7
       [] c = "8" -> 8 [] c = "9" -> 9]

\* the characters str.strip() removes and \s matches
Whitespace == {" ", "\t", "\n", "\r"}

IsDigits(str) == \A k \in DOMAIN str : str[k] \in Digits

\* how many characters of Whitespace str starts with
RECURSIVE LeadingSpace(_)
LeadingSpace(str) ==
  IF str # <<>> /\ Head(str) \in Whitespace THEN 1 + LeadingSpace(Tail(str)) ELSE 0

RECURSIVE TrailingSpace(_)
TrailingSpace(str) ==
  IF str # <<>> /\ str[Len(str)] \in Whitespace
    THEN 1 + TrailingSpace(SubSeq(str, 1, Len(str) - 1))
  ELSE 0

\* str.strip()
strip(str) ==
  IF LeadingSpace(str) = Len(str) THEN <<>>
  ELSE SubSeq(str, LeadingSpace(str) + 1, Len(str) - TrailingSpace(str))

\* the position of the first ch in str, 0 if there is none
RECURSIVE IndexOf(_, _, _)
IndexOf(str, ch, from) ==
  IF from > Len(str) THEN 0
  ELSE IF str[from] = ch THEN from
  ELSE IndexOf(str, ch, from + 1)

\* str.split(sep)
RECURSIVE split(_, _)
split(str, sep) ==
  IF IndexOf(str, sep, 1) = 0 THEN <<str>>
  ELSE <<SubSeq(str, 1, IndexOf(str, sep, 1) - 1)>>
         \o split(SubSeq(str, IndexOf(str, sep, 1) + 1, Len(str)), sep)

\* int(str) of a string of digits
RECURSIVE IntOfDigits(_)
IntOfDigits(str) ==
  IF str = <<>> THEN 0
  ELSE 10 * IntOfDigits(SubSeq(str, 1, Len(str) - 1)) + DigitValue[str[Len(str)]]

\* the natural a string of digits writes, of any length: acc is the natural
\* written by the digits before position n
RECURSIVE BFromDigitsAt(_, _, _)
BFromDigitsAt(str, n, acc) ==
  IF n > Len(str) THEN acc
  ELSE LET next == BAdd(BMulSmall(acc, 10), BFromInt(DigitValue[str[n]]))
       IN IF Len(next) >= 0 THEN BFromDigitsAt(str, n + 1, next) ELSE <<>>

BFromDigits(str) == BFromDigitsAt(str, 1, <<>>)

\* int(str) raises ValueError unless str is a number; of the characters met
\* here only digits make one
IntOk(str) == str # <<>> /\ IsDigits(str)

\* Decimal(str) raises InvalidOperation unless str is a number; of the
\* characters met here: digits with at most one point and at least one digit
DecimalOk(str) ==
  LET dot == IndexOf(str, ".", 1)
      whole == IF dot = 0 THEN str ELSE SubSeq(str, 1, dot - 1)
      frac == IF dot = 0 THEN <<>> ELSE SubSeq(str, dot + 1, Len(str))
  IN IsDigits(whole) /\ IsDigits(frac) /\ Len(whole) + Len(frac) >= 1

\* Decimal(str): the exact value N / 10^k
DecimalOf(str) ==
  LET dot == IndexOf(str, ".", 1)
      whole == IF dot = 0 THEN str ELSE SubSeq(str, 1, dot - 1)
      frac == IF dot = 0 THEN <<>> ELSE SubSeq(str, dot + 1, Len(str))
  IN [N |-> BFromDigits(whole \o frac), k |-> Len(frac)]

\* the number of decimal digits of x
RECURSIVE BDecLen(_)
BDecLen(x) == IF x = <<>> THEN 0 ELSE 1 + BDecLen(BDivSmall(x, 10).q)

\* getcontext().prec
DecimalPrec == 28

\* x / 10^cut rounded to an integer, half to even; cut >= 1
BRoundCut(x, cut) ==
  LET d == BDivPow10(x, cut - 1, FALSE)
      last == BDivSmall(d.q, 10)
      up == \/ last.r > 5
            \/ last.r = 5 /\ (d.sticky \/ BIsOdd(last.q))
  IN IF up THEN BAdd(last.q, <<1>>) ELSE last.q

\* The result of a Decimal operation is rounded to the precision of the
\* context, half to even: N / 10^k kept to DecimalPrec significant digits.
\* The digits cut off are fractional in every value met here.
DecimalRound(N, k) ==
  IF BDecLen(N) <= DecimalPrec THEN [N |-> N, k |-> k]
  ELSE [N |-> BRoundCut(N, BDecLen(N) - DecimalPrec),
        k |-> k - (BDecLen(N) - DecimalPrec)]

\* TotalSeconds with the minutes counted as seconds
TotalSecondsMinutesDropped(hours, minutes, seconds) ==
  DecimalRound(BAdd(BMulPow10(BFromInt(hours * 3600 + minutes), seconds.k),
                    seconds.N),
               seconds.k)

\* hours * 3600 + minutes * 60 + seconds, a Decimal
TotalSeconds(hours, minutes, seconds) ==
  DecimalRound(BAdd(BMulPow10(BFromInt(hours * 3600 + minutes * 60), seconds.k),
                    seconds.N),
               seconds.k)

\* parse_duration(duration_str): ok is FALSE where the code prints an error
\* and exits; decimal is the Decimal total, value is float(total)
parse_duration(str) ==
  LET parts == split(strip(str), ":")
      bad == [ok |-> FALSE, decimal |-> [N |-> <<>>, k |-> 0], value |-> FZero]
      good(h, m, sec) ==
        LET total == TotalSeconds(h, m, sec)
        IN IF sec.k >= 0 /\ total.k >= 0
             THEN [ok |-> TRUE, decimal |-> total,
                   value |-> FloatOfDecimal(total.N, total.k)]
             ELSE bad
  IN IF Len(parts) = 3
       THEN IF IntOk(parts[1]) /\ IntOk(parts[2]) /\ DecimalOk(parts[3])
              THEN good(IntOfDigits(parts[1]), IntOfDigits(parts[2]), DecimalOf(parts[3]))
              ELSE bad
     ELSE IF Len(parts) = 2
       THEN IF IntOk(parts[1]) /\ DecimalOk(parts[2])
              THEN good(0, IntOfDigits(parts[1]), DecimalOf(parts[2]))
              ELSE bad
     ELSE bad

\* \d{1,2}:\d{2}(?::\d{2})?(?:\.\d+)? matching the whole of str
DurationPattern(str) ==
  LET dot == IndexOf(str, ".", 1)
      clock == IF dot = 0 THEN str ELSE SubSeq(str, 1, dot - 1)
      frac == IF dot = 0 THEN <<>> ELSE SubSeq(str, dot + 1, Len(str))
      fields == split(clock, ":")
  IN /\ dot # 0 => (frac # <<>> /\ IsDigits(frac))
     /\ Len(fields) \in {2, 3}
     /\ Len(fields[1]) \in {1, 2}
     /\ \A f \in 2..Len(fields) : Len(fields[f]) = 2
     /\ \A f \in 1..Len(fields) : IsDigits(fields[f])

\* MatchesAt with \s* in place of \s+
MatchesAtNoSpace(line, n) ==
  LET rest == SubSeq(line, n + 1, Len(line))
  IN /\ \A k \in 1..n : line[k] # "\n"
     /\ DurationPattern(SubSeq(rest, LeadingSpace(rest) + 1, Len(rest)))

\* ^(.*?)\s+(<duration>)$ with the title ending at position n: the rest is
\* whitespace, at least one, and a duration up to the end of the line
MatchesAt(line, n) ==
  LET rest == SubSeq(line, n + 1, Len(line))
  IN /\ \A k \in 1..n : line[k] # "\n"
     /\ LeadingSpace(rest) >= 1
     /\ DurationPattern(SubSeq(rest, LeadingSpace(rest) + 1, Len(rest)))

\* re.match(...): the lazy title takes the first position that matches;
\* -1 when the line does not match
RECURSIVE MatchFrom(_, _)
MatchFrom(line, n) ==
  IF n > Len(line) THEN -1
  ELSE IF MatchesAt(line, n) THEN n
  ELSE MatchFrom(line, n + 1)

re_match(line) == MatchFrom(line, 0)

\* match.groups() with the whitespace after the title left in the title
match_groups_greedy(line) ==
  LET n == re_match(line)
      rest == SubSeq(line, n + 1, Len(line))
  IN [title |-> SubSeq(line, 1, n + LeadingSpace(rest) - 1),
      duration_str |-> SubSeq(rest, LeadingSpace(rest) + 1, Len(rest))]

\* match.groups()
match_groups(line) ==
  LET n == re_match(line)
      rest == SubSeq(line, n + 1, Len(line))
  IN [title |-> SubSeq(line, 1, n),
      duration_str |-> SubSeq(rest, LeadingSpace(rest) + 1, Len(rest))]

\* Lines a chapters file may hold
\* 'In 00:17.90': a title and MM:SS.ss
LineIntro == <<"I", "n", " ", "0", "0", ":", "1", "7", ".", "9", "0">>

\* 'a;\b  01:26:43.50': a title with ; and \, two blanks, HH:MM:SS.ss
LineEscapes ==
  <<"a", ";", "\\", "b", " ", " ", "0", "1", ":", "2", "6", ":", "4", "3",
    ".", "5", "0">>

\* ' \t': only whitespace
LineBlank == <<" ", "\t">>

\* ' # c 1:00': a comment
LineComment == <<" ", "#", " ", "c", " ", "1", ":", "0", "0">>

\* 'Intro': no duration
LineNoDuration == <<"I", "n", "t", "r", "o">>

\* '00:17.90': no title
LineNoTitle == <<"0", "0", ":", "1", "7", ".", "9", "0">>

\* 'B 1:2:03': a one-digit minute
LineBadDuration == <<"B", " ", "1", ":", "2", ":", "0", "3">>

\* ' T 0:02.0035\t': whitespace around, a tenth of a millisecond
LineTie == <<" ", "T", " ", "0", ":", "0", "2", ".", "0", "0", "3", "5", "\t">>

\* 'T 0:00.00250000000000000000001': twenty-three fractional digits
LineLong ==
  <<"T", " ", "0", ":", "0", "0", ".", "0", "0", "2", "5", "0", "0", "0",
    "0", "0", "0", "0", "0", "0", "0", "0", "0", "0", "0", "0", "0", "0",
    "0", "1">>

\* 'P 1 2:00.5': a blank and a digit in the title
LineSpaced == <<"P", " ", "1", " ", "2", ":", "0", "0", ".", "5">>

Lines ==
  {LineIntro, LineEscapes, LineBlank, LineComment,
   LineNoDuration, LineNoTitle, LineBadDuration, LineTie,
   LineLong, LineSpaced}

MaxLines == 3

ChapterFiles == UNION {[1..n -> Lines] : n \in 0..MaxLines}

\* Titles create_metadata_file may be given when it is called on its own
TitleChars == {"a", "n", ";", "\\", "\n", "\r"}
MaxTitleLen == 3
Titles == UNION {[1..n -> TitleChars] : n \in 0..MaxTitleLen}
ShortTitles == {t \in Titles : Len(t) <= 1}

\* a duration parse_duration returned: 1.5
SomeDuration == parse_duration(<<"0", ":", "0", "1", ".", "5">>).value

ChapterLists ==
  {<<[title |-> t, duration |-> SomeDuration]>> : t \in Titles}
    \cup {<<[title |-> t[1], duration |-> SomeDuration],
            [title |-> t[2], duration |-> SomeDuration]>> :
            t \in ShortTitles \X ShortTitles}

\* Strings parse_duration may be given when it is called on its own
HourFields == {<<>>, <<"1", ":">>, <<"0", "1", ":">>, <<"9", "9", ":">>}
MinuteFields == {<<"0", "0">>, <<"2", "6">>, <<"5", "9">>}
SecondFields == {<<"0", "0">>, <<"1", "7">>, <<"4", "3">>}
FractionFields ==
  {<<>>, <<".", "0">>, <<".", "5">>, <<".", "5", "0">>, <<".", "9", "0">>,
   <<".", "0", "0", "1">>, <<".", "0", "0", "3", "5">>,
   SubSeq(LineLong, 7, Len(LineLong))}

WellFormedDurations ==
  {f[1] \o f[2] \o <<":">> \o f[3] \o f[4] :
     f \in HourFields \X MinuteFields \X SecondFields \X FractionFields}

MalformedDurations ==
  {<<"1", "7", ".", "9", "0">>, <<"1", ":", "2", ":", "3", ":", "4">>,
   <<":", "0", "5">>, <<"a", ":", "0", "0">>, <<"0", "5", ":">>}

DurationStrings == WellFormedDurations \cup MalformedDurations

Entries == {"main", "create_metadata_file", "parse_duration"}

InputsOverwrite ==
  /\ entry \in Entries
  /\ chapters_file \in (IF entry = "main" THEN ChapterFiles ELSE {<<>>})
  /\ chapters \in (IF entry = "create_metadata_file" THEN ChapterLists ELSE {<<>>})
  /\ duration_str \in (IF entry = "parse_duration" THEN DurationStrings ELSE {<<>>})
  /\ total_seconds = FZero
  /\ line_number = 0
  /\ idx = 0
  /\ current_time = FZero
  /\ metadata = <<>>
  /\ metadata_file = FALSE
  /\ muxed = FALSE
  /\ error_line = 0

\* parse_duration called on its own
ParseDuration ==
  /\ prog = "overwrite" /\ pc = "parse_duration"
  /\ UNCHANGED otherThanOverwrite
  /\ LET r == parse_duration(duration_str)
     IN IF r.ok
          THEN total_seconds' = r.value /\ pc' = "done"
          ELSE UNCHANGED total_seconds /\ pc' = "exit"
  /\ UNCHANGED <<prog, entry, chapters_file, duration_str, line_number, chapters,
                 idx, current_time, metadata, metadata_file, muxed, error_line>>

\* One pass of the loop of read_chapters: a line is skipped, or reported with
\* its number before sys.exit(1), or makes a chapter
ReadLine ==
  /\ prog = "overwrite" /\ pc = "read_chapters"
  /\ UNCHANGED otherThanOverwrite
  /\ line_number < Len(chapters_file)
  /\ line_number' = line_number + 1
  /\ LET line == strip(chapters_file[line_number + 1])
     IN IF line = <<>> \/ Head(line) = "#"
          THEN UNCHANGED <<pc, chapters, error_line>>
        ELSE IF re_match(line) = -1
          THEN /\ error_line' = line_number + 1
               /\ pc' = "exit"
               /\ UNCHANGED chapters
        ELSE LET duration_seconds == parse_duration(match_groups(line).duration_str)
             IN IF duration_seconds.ok
                  THEN /\ chapters' =
                            Append(chapters,
                                   [title |-> match_groups(line).title,
                                    duration |-> duration_seconds.value])
                       /\ UNCHANGED <<pc, error_line>>
                  ELSE pc' = "exit" /\ UNCHANGED <<chapters, error_line>>
  /\ UNCHANGED <<prog, entry, chapters_file, duration_str, total_seconds, idx,
                 current_time, metadata, metadata_file, muxed>>

\* read_chapters returns and main goes on whatever the list holds
ReadDoneUnchecked ==
  /\ prog = "overwrite" /\ pc = "read_chapters"
  /\ UNCHANGED otherThanOverwrite
  /\ line_number = Len(chapters_file)
  /\ pc' = "create_metadata_file"
  /\ UNCHANGED <<prog, overwriteVars>>

\* read_chapters returns; main exits when there is no chapter
ReadDone ==
  /\ prog = "overwrite" /\ pc = "read_chapters"
  /\ UNCHANGED otherThanOverwrite
  /\ line_number = Len(chapters_file)
  /\ pc' = IF chapters = <<>> THEN "exit" ELSE "create_metadata_file"
  /\ UNCHANGED <<prog, overwriteVars>>

\* create_metadata_file opens the file and writes its first line
CreateMetadataFile ==
  /\ prog = "overwrite" /\ pc = "create_metadata_file"
  /\ UNCHANGED otherThanOverwrite
  /\ metadata_file' = TRUE
  /\ metadata' = <<>>
  /\ current_time' = FZero
  /\ idx' = 1
  /\ pc' = "write_chapters"
  /\ UNCHANGED <<prog, entry, chapters_file, duration_str, total_seconds,
                 line_number, chapters, muxed, error_line>>

\* str.replace(ch, with) for a one-character ch
RECURSIVE replace(_, _, _)
replace(str, ch, with) ==
  IF str = <<>> THEN <<>>
  ELSE (IF Head(str) = ch THEN with ELSE <<Head(str)>>) \o replace(Tail(str), ch, with)

\* escaped_title replacing the backslash last
escaped_title_backslash_last(title) ==
  replace(replace(replace(replace(title, ";", <<"\\", ";">>),
                          "\n", <<"\\", "n">>),
                  "\r", <<"\\", "r">>),
          "\\", <<"\\", "\\">>)

\* title.replace('\\', '\\\\').replace(';', '\;').replace('\n', '\\n').replace('\r', '\\r')
escaped_title(title) ==
  replace(replace(replace(replace(title, "\\", <<"\\", "\\">>),
                          ";", <<"\\", ";">>),
                  "\n", <<"\\", "n">>),
          "\r", <<"\\", "r">>)

\* int(Decimal(t * 1000).quantize(Decimal('1')))
milliseconds(t) == BToInt(QuantizeInt(FMulSmall(t, 1000)))

chapter_start(time, duration) == milliseconds(time)

\* chapter_end rounding the start and the duration apart
chapter_end_rounded_apart(time, duration) == milliseconds(time) + milliseconds(duration)

chapter_end(time, duration) == milliseconds(FAdd(time, duration))

\* One pass of the loop of create_metadata_file
WriteChapter ==
  /\ prog = "overwrite" /\ pc = "write_chapters"
  /\ UNCHANGED otherThanOverwrite
  /\ idx <= Len(chapters)
  /\ metadata' =
       Append(metadata,
              [START |-> chapter_start(current_time, chapters[idx].duration),
               END |-> chapter_end(current_time, chapters[idx].duration),
               title |-> escaped_title(chapters[idx].title)])
  /\ current_time' = FAdd(current_time, chapters[idx].duration)
  /\ idx' = idx + 1
  /\ UNCHANGED <<prog, pc, entry, chapters_file, duration_str, total_seconds,
                 line_number, chapters, metadata_file, muxed, error_line>>

\* create_metadata_file returns, to main or to its caller
WriteDone ==
  /\ prog = "overwrite" /\ pc = "write_chapters"
  /\ UNCHANGED otherThanOverwrite
  /\ idx > Len(chapters)
  /\ pc' = IF entry = "main" THEN "apply_metadata" ELSE "done"
  /\ UNCHANGED <<prog, overwriteVars>>

\* apply_metadata runs ffmpeg on the metadata file; sys.exit(1) when it fails
ApplyMetadata ==
  /\ prog = "overwrite" /\ pc = "apply_metadata"
  /\ UNCHANGED otherThanOverwrite
  /\ muxed' = TRUE
  /\ \E ok \in BOOLEAN : pc' = IF ok THEN "remove" ELSE "exit"
  /\ UNCHANGED <<prog, entry, chapters_file, duration_str, total_seconds,
                 line_number, chapters, idx, current_time, metadata,
                 metadata_file, error_line>>

\* main removes the metadata file; an OSError is only warned about
RemoveMetadataFile ==
  /\ prog = "overwrite" /\ pc = "remove"
  /\ UNCHANGED otherThanOverwrite
  /\ \E removed \in BOOLEAN : metadata_file' = ~removed
  /\ pc' = "done"
  /\ UNCHANGED <<prog, entry, chapters_file, duration_str, total_seconds,
                 line_number, chapters, idx, current_time, metadata, muxed,
                 error_line>>

NextOverwrite ==
  \/ ParseDuration
  \/ ReadLine
  \/ ReadDone
  \/ CreateMetadataFile
  \/ WriteChapter
  \/ WriteDone
  \/ ApplyMetadata
  \/ RemoveMetadataFile

InitOverwrite ==
  /\ prog = "overwrite"
  /\ InputsOverwrite /\ IdleExtract /\ IdleCombine
  /\ pc = IF entry = "main" THEN "read_chapters" ELSE entry

SpecOverwrite == InitOverwrite /\ [][NextOverwrite]_vars

(***************************************************************************)
(* combine_audio.py: combine_files.  The bitrate options only shape the   *)
(* ffmpeg commands and are left out.                                       *)
(***************************************************************************)
MaxParts == 3

\* What ffprobe may print as the duration of a temp file; nothing when it
\* could not tell
DurationNone == <<>>
Duration1500500 == <<"1", ".", "5", "0", "0", "5", "0", "0">>
Duration0000500 == <<"0", ".", "0", "0", "0", "5", "0", "0">>
Duration2000000 == <<"2", ".", "0", "0", "0", "0", "0", "0">>
Duration1234500 == <<"1", ".", "2", "3", "4", "5", "0", "0">>
DurationOutputs ==
  {DurationNone, Duration1500500, Duration0000500, Duration2000000, Duration1234500}

\* the titles of a chapter titles file of n lines
TitlesFile(n) == [k \in 1..n |-> IF k = 2 THEN <<"a", ";", "b">> ELSE <<"I">>]

\* --sample-rate: not given, or the integer given
SampleRates == {<<>>, <<0>>, <<44100>>}

\* the part files of the book in the directory
PartsOnDisk(n) == {<<"part", k>> : k \in 1..n}

\* what main and combine_files are given: the part files found, each with
\* what ffprobe will print for its temp file, the options, and whether a
\* combined output is already there
InputsCombineWith(durations, options, outputs) ==
  /\ \E n \in 0..MaxParts :
       /\ part_files = [k \in 1..n |-> k]
       /\ ffprobe_durations \in [1..n -> durations]
       /\ \E there \in outputs :
            on_disk = PartsOnDisk(n) \cup (IF there THEN {<<"output">>} ELSE {})
  /\ dry_run \in BOOLEAN
  /\ \E n \in 0..MaxParts : chapter_titles = TitlesFile(n)
  /\ chapter_threshold \in {2, 6}
  /\ args \in options
  /\ temp_files = <<>>
  /\ ti = 0
  /\ previous_time = [N |-> <<>>, k |-> 0]
  /\ offsets = <<>>
  /\ chapter_blocks = <<>>
  /\ result = "none"
  /\ cover_image = "None"
  /\ ffmpeg_runs = 0

\* combine_files called with --combine alone in a directory without output
InputsCombine ==
  InputsCombineWith(DurationOutputs, {[combine |-> TRUE, clean |-> FALSE]}, {FALSE})

\* combine_files up to the re-encoding loop: the part files, the dry run, the
\* count of titles, the cover image ffmpeg may extract, the bitrate (estimated
\* is false when neither an option nor ffprobe gave one: the lookup raises a
\* TypeError on None), the sample rate
CombineFiles ==
  /\ prog = "combine" /\ pc = "start"
  /\ UNCHANGED otherThanCombine
  /\ IF part_files = <<>>
       THEN /\ result' = "False" /\ pc' = "done"
            /\ UNCHANGED <<ti, cover_image, on_disk, ffmpeg_runs>>
     ELSE IF dry_run
       THEN /\ result' = "True" /\ pc' = "done"
            /\ UNCHANGED <<ti, cover_image, on_disk, ffmpeg_runs>>
     ELSE IF chapter_titles # <<>> /\ Len(chapter_titles) # Len(part_files)
       THEN /\ result' = "False" /\ pc' = "done"
            /\ UNCHANGED <<ti, cover_image, on_disk, ffmpeg_runs>>
     ELSE /\ ffmpeg_runs' = ffmpeg_runs + 1
          /\ \E cover \in {"None", "_temp_cover.jpg"} :
               /\ cover_image' = cover
               /\ on_disk' = IF cover = "None" THEN on_disk \ {<<"_temp_cover.jpg">>}
                             ELSE on_disk \cup {<<"_temp_cover.jpg">>}
          /\ \E sample_rate \in SampleRates, estimated \in BOOLEAN :
               IF ~estimated
                 THEN result' = "raised" /\ pc' = "done" /\ UNCHANGED ti
               ELSE IF sample_rate # <<>> /\ sample_rate[1] <= 0
                 THEN result' = "False" /\ pc' = "done" /\ UNCHANGED ti
               ELSE pc' = "encode" /\ ti' = 1 /\ UNCHANGED result
  /\ UNCHANGED <<prog, part_files, dry_run, chapter_titles, chapter_threshold,
                 ffprobe_durations, temp_files, previous_time, offsets,
                 chapter_blocks, args>>

\* One pass of the re-encoding loop: ffmpeg makes _temp_<index>.m4b, or fails
\* and its CalledProcessError leaves combine_files
Encode ==
  /\ prog = "combine" /\ pc = "encode" /\ ti <= Len(part_files)
  /\ UNCHANGED otherThanCombine
  /\ ffmpeg_runs' = ffmpeg_runs + 1
  /\ \E ok \in BOOLEAN :
       IF ok
         THEN /\ temp_files' = Append(temp_files, ti - 1)
              /\ on_disk' = on_disk \cup {<<"_temp_", ti - 1>>}
              /\ ti' = ti + 1
              /\ UNCHANGED <<pc, result>>
         ELSE /\ result' = "raised"
              /\ pc' = "done"
              /\ UNCHANGED <<temp_files, on_disk, ti>>
  /\ UNCHANGED <<prog, part_files, dry_run, chapter_titles, chapter_threshold,
                 ffprobe_durations, previous_time, offsets, chapter_blocks,
                 args, cover_image>>

\* The file list is written and ffmpeg concatenates the temp files into the
\* output; the file list is removed when it succeeds, and when it fails
\* combine_files returns False, with or without an output left behind
Concat ==
  /\ prog = "combine" /\ pc = "encode" /\ ti > Len(part_files)
  /\ UNCHANGED otherThanCombine
  /\ ffmpeg_runs' = ffmpeg_runs + 1
  /\ \E ok \in BOOLEAN :
       IF ok
         THEN /\ on_disk' = on_disk \cup {<<"output">>}
              /\ pc' = "offsets"
              /\ ti' = 1
              /\ previous_time' = [N |-> <<>>, k |-> 0]
              /\ offsets' = <<>>
              /\ UNCHANGED result
         ELSE /\ \E left \in SUBSET {<<"output">>} :
                   on_disk' = on_disk \cup {<<"_temp_file_list.txt">>} \cup left
              /\ result' = "False"
              /\ pc' = "done"
              /\ UNCHANGED <<ti, previous_time, offsets>>
  /\ UNCHANGED <<prog, part_files, dry_run, chapter_titles, chapter_threshold,
                 ffprobe_durations, temp_files, chapter_blocks, args, cover_image>>

\* a + b of two Decimals, rounded to the precision of the context
DecimalAdd(a, b) ==
  LET k == IF a.k >= b.k THEN a.k ELSE b.k
  IN DecimalRound(BAdd(BMulPow10(a.N, k - a.k), BMulPow10(b.N, k - b.k)), k)

\* One pass of the offsets loop: a temp file without a duration is skipped
ProbeDuration ==
  /\ prog = "combine" /\ pc = "offsets" /\ ti <= Len(temp_files)
  /\ UNCHANGED otherThanCombine
  /\ IF ffprobe_durations[ti] = <<>>
       THEN UNCHANGED <<previous_time, offsets, on_disk>>
       ELSE /\ previous_time' = DecimalAdd(previous_time, DecimalOf(ffprobe_durations[ti]))
            /\ offsets' =
                 Append(offsets,
                        [start_time |-> previous_time,
                         end_time |-> DecimalAdd(previous_time,
                                                 DecimalOf(ffprobe_durations[ti]))])
            /\ on_disk' = on_disk \ {<<"_temp_", temp_files[ti]>>}
  /\ ti' = ti + 1
  /\ UNCHANGED <<prog, pc, part_files, dry_run, chapter_titles, chapter_threshold,
                 ffprobe_durations, temp_files, chapter_blocks, result, args,
                 cover_image, ffmpeg_runs>>

\* int((t * 1000).quantize(Decimal('1'))) of a Decimal t
decimal_ms(t) ==
  BToInt(IF t.k = 0 THEN BMulSmall(t.N, 1000)
         ELSE BRoundCut(BMulSmall(t.N, 1000), t.k))

\* the digit that stands for n < 10
DigitOf(n) == CHOOSE c \in Digits : DigitValue[c] = n

\* a natural number as an f-string writes it
RECURSIVE format_int(_)
format_int(n) ==
  IF n < 10 THEN <<DigitOf(n)>> ELSE format_int(n \div 10) \o <<DigitOf(n % 10)>>

\* chapter_label
chapter_label(total_parts) ==
  IF total_parts < chapter_threshold THEN <<"P", "a", "r", "t">>
  ELSE <<"C", "h", "a", "p", "t", "e", "r">>

\* the title generate_chapter_metadata gives the chapter at index (from 0)
chapter_title_of(index, total_parts) ==
  IF chapter_titles # <<>> /\ index < Len(chapter_titles)
    THEN chapter_titles[index + 1]
  ELSE chapter_label(total_parts) \o <<" ">> \o format_int(index + 1)

\* generate_chapter_metadata: the [CHAPTER] blocks, the title written as it is
generate_chapter_metadata(offs) ==
  [n \in 1..Len(offs) |->
     [TIMEBASE |-> "1/1000",
      START |-> decimal_ms(offs[n].start_time),
      END |-> decimal_ms(offs[n].end_time),
      TITLE |-> chapter_title_of(n - 1, Len(offs))]]

\* The offsets loop is over: the chapter metadata file is written
GenerateChapterMetadata ==
  /\ prog = "combine" /\ pc = "offsets" /\ ti > Len(temp_files)
  /\ UNCHANGED otherThanCombine
  /\ chapter_blocks' = generate_chapter_metadata(offsets)
  /\ on_disk' = on_disk \cup {<<"_temp_chapters_metadata.txt">>}
  /\ pc' = "add_chapters"
  /\ UNCHANGED <<prog, part_files, dry_run, chapter_titles, chapter_threshold,
                 ffprobe_durations, temp_files, ti, previous_time, offsets, result,
                 args, cover_image, ffmpeg_runs>>

\* ffmpeg adds the chapters and the metadata to a .tmp.m4b copy.  When it
\* succeeds the copy replaces the output and the metadata file and the cover
\* image are removed; when it fails combine_files returns False, with or
\* without a copy left behind
AddChapters ==
  /\ prog = "combine" /\ pc = "add_chapters"
  /\ UNCHANGED otherThanCombine
  /\ ffmpeg_runs' = ffmpeg_runs + 1
  /\ \E ok \in BOOLEAN :
       IF ok
         THEN /\ on_disk' = (on_disk \ {<<"_temp_chapters_metadata.txt">>})
                              \ (IF cover_image # "None"
                                   THEN {<<cover_image>>} ELSE {})
              /\ result' = "True"
         ELSE /\ \E left \in SUBSET {<<".tmp.m4b">>} : on_disk' = on_disk \cup left
              /\ result' = "False"
  /\ pc' = "done"
  /\ UNCHANGED <<prog, part_files, dry_run, chapter_titles, chapter_threshold,
                 ffprobe_durations, temp_files, ti, previous_time, offsets,
                 chapter_blocks, args, cover_image>>

NextCombine ==
  \/ CombineFiles
  \/ Encode
  \/ Concat
  \/ ProbeDuration
  \/ GenerateChapterMetadata
  \/ AddChapters

InitCombine ==
  /\ prog = "combine" /\ pc = "start"
  /\ InputsCombine /\ IdleExtract /\ IdleOverwrite

SpecCombine == InitCombine /\ [][NextCombine]_vars

(***************************************************************************)
(* combine_audio.py: main and clean_files                                  *)
(***************************************************************************)
\* the durations ffprobe prints in the runs of main
MainDurationOutputs == {DurationNone, Duration1500500}

InputsMain ==
  InputsCombineWith(MainDurationOutputs, [combine : BOOLEAN, clean : BOOLEAN], BOOLEAN)

\* main up to the call of combine_files: it returns when no file or no book
\* name was found or the chapter titles file could not be read
Main ==
  /\ prog = "combine" /\ pc = "main"
  /\ UNCHANGED otherThanCombine
  /\ \E found \in BOOLEAN :
       pc' = IF ~found THEN "exit"
             ELSE IF args.combine THEN "start"
             ELSE IF args.clean THEN "clean"
             ELSE "exit"
  /\ UNCHANGED <<prog, combineVars>>

\* CombineReturned going on to clean_files after a failed combination
CombineReturnedGoesOn ==
  /\ prog = "combine" /\ pc = "done" /\ args.combine
  /\ UNCHANGED otherThanCombine
  /\ pc' = IF result = "raised" THEN "exit"
           ELSE IF args.clean THEN "clean"
           ELSE "exit"
  /\ UNCHANGED <<prog, combineVars>>

\* combine_files is back in main: main ends when it raised, or when it failed
\* and this is no dry run
CombineReturned ==
  /\ prog = "combine" /\ pc = "done" /\ args.combine
  /\ UNCHANGED otherThanCombine
  /\ pc' = IF result = "raised" THEN "exit"
           ELSE IF result # "True" /\ ~dry_run THEN "exit"
           ELSE IF args.clean THEN "clean"
           ELSE "exit"
  /\ UNCHANGED <<prog, combineVars>>

\* clean_files deleting in a dry run as well
clean_files_wet ==
  IF <<"output">> \in on_disk
    THEN \E failed \in SUBSET PartsOnDisk(Len(part_files)) :
           on_disk' = on_disk \ (PartsOnDisk(Len(part_files)) \ failed)
    ELSE UNCHANGED on_disk

\* clean_files: when the output exists and this is no dry run, os.remove on
\* every part file, each of which may fail with an OSError
clean_files ==
  IF <<"output">> \in on_disk /\ ~dry_run
    THEN \E failed \in SUBSET PartsOnDisk(Len(part_files)) :
           on_disk' = on_disk \ (PartsOnDisk(Len(part_files)) \ failed)
    ELSE UNCHANGED on_disk

CleanFiles ==
  /\ prog = "combine" /\ pc = "clean"
  /\ UNCHANGED otherThanCombine
  /\ clean_files
  /\ pc' = "exit"
  /\ UNCHANGED <<prog, part_files, dry_run, chapter_titles, chapter_threshold,
                 ffprobe_durations, temp_files, ti, previous_time, offsets,
                 chapter_blocks, result, args, cover_image, ffmpeg_runs>>

NextMain ==
  \/ Main
  \/ CombineReturned
  \/ CleanFiles
  \/ NextCombine

InitMain ==
  /\ prog = "combine" /\ pc = "main"
  /\ InputsMain /\ IdleExtract /\ IdleOverwrite

SpecMain == InitMain /\ [][NextMain]_vars

\* both utilities that write a chapter timeline
InitTimeline == InitOverwrite \/ InitCombine

NextTimeline == NextOverwrite \/ NextCombine

SpecTimeline == InitTimeline /\ [][NextTimeline]_vars

(***************************************************************************)
(* The tree build_chapter_hierarchy returned, as the claims speak of it    *)
(***************************************************************************)
\* build_chapter_hierarchy has returned: called on the list as it is, or by
\* display_chapters on the filtered list
Built ==
  /\ prog = "extract" /\ pc = "done"
  /\ mode = "hierarchy" \/ (mode = "display" /\ header # -1)

\* the list build_chapter_hierarchy was called on
BuildInput == IF mode = "hierarchy" THEN probe ELSE filtered

Node(i) == hierarchy.nodes[i]
NodeIdx == DOMAIN hierarchy.nodes
Children(p) == hierarchy.subchapters[p]
ParentsOf(c) == {p \in NodeIdx : \E k \in DOMAIN Children(p) : Children(p)[k] = c}
IsTop(c) == \E k \in DOMAIN hierarchy.top : hierarchy.top[k] = c

\* every list of siblings: the top-level nodes and each node's subchapters
SiblingLists == {hierarchy.top} \cup {Children(p) : p \in NodeIdx}

FLe(a, b) == FCmp(a, b) <= 0
FLt(a, b) == FCmp(a, b) < 0

\* one ends at or before the other starts
Disjoint(a, b) == FLe(a.end_time, b.start_time) \/ FLe(b.end_time, a.start_time)
\* p starts strictly earlier than c and ends no earlier
Encloses(p, c) == FLt(p.start_time, c.start_time) /\ FLe(c.end_time, p.end_time)

WellNested ==
  \A i, j \in NodeIdx :
    i # j => \/ Disjoint(Node(i), Node(j))
             \/ Encloses(Node(i), Node(j))
             \/ Encloses(Node(j), Node(i))

AllKeptByFilter == \A i \in DOMAIN BuildInput : LongEnough(BuildInput[i])

EnclosersOf(c) == {p \in NodeIdx \ {c} : Encloses(Node(p), Node(c))}

IdsOf(sq) == [k \in DOMAIN sq |-> Node(sq[k]).id]

\* C2: on a well-nested set of chapters kept by the filter, every chapter is
\* the child of exactly the innermost chapter enclosing it, and a top-level
\* node when none encloses it; the list (0,10), (1,4), (5,9), (10,20) gives the
\* top-level nodes (0,10) and (10,20), the first with the children (1,4) and
\* (5,9), the second with none.
C2_InnermostParent ==
  /\ (Built /\ AllKeptByFilter /\ WellNested) =>
       \A c \in NodeIdx :
         IF EnclosersOf(c) = {}
           THEN IsTop(c) /\ ParentsOf(c) = {}
           ELSE /\ ~IsTop(c)
                /\ \E p \in EnclosersOf(c) :
                     /\ ParentsOf(c) = {p}
                     /\ \A q \in EnclosersOf(c) \ {p} : Encloses(Node(q), Node(p))
  /\ (Built /\ probe = WithIds(ExampleList)) =>
       /\ IdsOf(hierarchy.top) = <<1, 4>>
       /\ \A p \in NodeIdx :
            IdsOf(Children(p)) = IF Node(p).id = 1 THEN <<2, 3>> ELSE <<>>

\* C2 witness: display_chapters built a tree of a well-nested set in which a
\* chapter lies two levels deep
C2_Witness ==
  /\ Built /\ mode = "display" /\ AllKeptByFilter /\ WellNested
  /\ \E c \in NodeIdx : \E p \in ParentsOf(c) : ParentsOf(p) # {}

\* C3 as stated: whatever the input, every child lies within its parent
C3_ChildWithinParentAnyInput ==
  Built =>
    \A p \in NodeIdx : \A k \in DOMAIN Children(p) :
      /\ FLe(Node(p).start_time, Node(Children(p)[k]).start_time)
      /\ FLe(Node(Children(p)[k]).end_time, Node(p).end_time)

\* C3 (amended): whatever the input, every child starts within its parent:
\* parent.start <= child.start < parent.end; and on a well-nested set of
\* chapters the child also ends within it: child.end <= parent.end.
C3_ChildStartsWithinParent ==
  Built =>
    \A p \in NodeIdx : \A k \in DOMAIN Children(p) :
      /\ FLe(Node(p).start_time, Node(Children(p)[k]).start_time)
      /\ FLt(Node(Children(p)[k]).start_time, Node(p).end_time)
      /\ WellNested => FLe(Node(Children(p)[k]).end_time, Node(p).end_time)

\* C3 witness: a tree of partially overlapping chapters in which a child ends
\* after its parent
C3_Witness ==
  /\ Built /\ ~WellNested
  /\ \E p \in NodeIdx : \E k \in DOMAIN Children(p) :
       FLt(Node(p).end_time, Node(Children(p)[k]).end_time)

\* C4: whatever the input, in every list of siblings (the top-level nodes and
\* each node's children) the start times ascend and each sibling ends at or
\* before the next one starts.
C4_SiblingsOrderedDisjoint ==
  Built =>
    \A sibs \in SiblingLists : \A k \in 1..(Len(sibs) - 1) :
      /\ FLe(Node(sibs[k]).start_time, Node(sibs[k + 1]).start_time)
      /\ FLe(Node(sibs[k]).end_time, Node(sibs[k + 1]).start_time)

\* C4 witness: a tree built from a list that was not in start order, in which
\* some node has two children
C4_Witness ==
  /\ Built /\ mode = "hierarchy"
  /\ \E i \in 1..(Len(probe) - 1) : FLt(probe[i + 1].start_time, probe[i].start_time)
  /\ \E p \in NodeIdx : Len(Children(p)) >= 2

\* C5: when the filter leaves no chapter or one, nothing is built or displayed
\* by the display path and nothing is extracted by the extraction path.
C5_FewChaptersNothingDone ==
  (/\ prog = "extract" /\ pc = "done" /\ mode \in {"display", "extract"}
   /\ Len(filter_chapters(probe)) <= 1)
    => /\ header = -1
       /\ hierarchy = NoHierarchy
       /\ printed = <<>>
       /\ chapter_names = <<>>

\* the chapter lasts at least one second by the times ffprobe printed (tenths)
AtLeastOneSecond(c) == c.end - c.start >= 10

\* C6: a chapter with end - start < 1.0 is in none of the filtered list, the
\* extracted files and the displayed hierarchy, and a chapter with
\* end - start >= 1.0 is in the filtered list.
C6_FilterByDuration ==
  (prog = "extract" /\ pc = "done" /\ mode \in {"display", "extract"}) =>
    \A i \in DOMAIN probe :
      IF AtLeastOneSecond(probe[i])
        THEN \E k \in DOMAIN filtered : filtered[k] = probe[i]
        ELSE /\ \A k \in DOMAIN filtered : filtered[k].id # probe[i].id
             /\ \A k \in DOMAIN chapter_names : chapter_names[k].id # probe[i].id
             /\ \A k \in DOMAIN printed : printed[k].id # probe[i].id

(***************************************************************************)
(* overwrite_chapters.py: what the claims speak of                         *)
(***************************************************************************)
BAbsDiff(x, y) == IF BCmp(x, y) >= 0 THEN BSub(x, y) ELSE BSub(y, x)

\* the float x is the decimal N / 10^k exactly
FloatIsExactly(x, N, k) ==
  IF x.e >= 0 THEN BMulPow10(BShl(x.m, x.e), k) = N
  ELSE BMulPow10(x.m, k) = BShl(N, -x.e)

\* no float is nearer to N / 10^k than x, and x has the even mantissa when
\* N / 10^k lies midway between two floats; x and N / 10^k below 2^MantBits
FloatIsNearest(x, N, k) ==
  IF N = <<>> THEN x = FZero
  ELSE /\ x.m # <<>> /\ ~x.neg /\ x.e < 0 /\ BBitLen(x.m) = MantBits
       /\ LET twice == BMulSmall(BAbsDiff(BMulPow10(x.m, k), BShl(N, -x.e)), 2)
              ulp == BMulPow10(<<1>>, k)
          IN \/ BCmp(twice, ulp) < 0
             \/ BCmp(twice, ulp) = 0 /\ ~BIsOdd(x.m)

\* the fields a well-formed duration string is made of
DurationFields == HourFields \X MinuteFields \X SecondFields \X FractionFields
StringOfFields(f) == f[1] \o f[2] \o <<":">> \o f[3] \o f[4]

\* hours * 3600 + minutes * 60 + seconds of such fields, as N / 10^k
ExactSeconds(f) ==
  LET hours == IF f[1] = <<>> THEN 0 ELSE IntOfDigits(SubSeq(f[1], 1, Len(f[1]) - 1))
      whole == hours * 3600 + IntOfDigits(f[2]) * 60 + IntOfDigits(f[3])
      k == IF f[4] = <<>> THEN 0 ELSE Len(f[4]) - 1
      frac == IF f[4] = <<>> THEN <<>> ELSE BFromDigits(Tail(f[4]))
  IN [N |-> BAdd(BMulPow10(BFromInt(whole), k), frac), k |-> k]

ParseDone == prog = "overwrite" /\ entry = "parse_duration" /\ pc = "done"

\* "01:26:43.50" and "00:17.90"
Example5203 == <<<<"0", "1", ":">>, <<"2", "6">>, <<"4", "3">>, <<".", "5", "0">>>>
Example17 == <<<<>>, <<"0", "0">>, <<"1", "7">>, <<".", "9", "0">>>>

IsDurationToken(str) ==
  \E h \in {1, 2} : \E fields \in {2, 3} :
    LET clock == h + 3 * (fields - 1)
    IN /\ Len(str) = clock \/ Len(str) >= clock + 2
       /\ \A k \in 1..Len(str) :
            IF k = h + 1 \/ (fields = 3 /\ k = h + 4) THEN str[k] = ":"
            ELSE IF k = clock + 1 THEN str[k] = "."
            ELSE str[k] \in Digits

\* '<title> <whitespace> <duration token>'
IsChapterLine(str) ==
  \E a \in 0..Len(str) : \E b \in (a + 1)..Len(str) :
    /\ \A k \in (a + 1)..b : str[k] \in Whitespace
    /\ IsDurationToken(SubSeq(str, b + 1, Len(str)))

\* the numbers of the lines that are not blank, not a comment and malformed
MalformedLines(file) ==
  {n \in DOMAIN file :
     /\ strip(file[n]) # <<>>
     /\ Head(strip(file[n])) # "#"
     /\ ~IsChapterLine(strip(file[n]))}

FirstOf(S) == CHOOSE n \in S : \A o \in S : n <= o

\* C9: when a line of the chapters file that is neither blank nor a comment
\* does not match '<title> <whitespace> <duration token>', the run never gets
\* past read_chapters: once that line is read the run has exited reporting
\* the line's 1-based number, no metadata file is ever written and ffmpeg
\* never runs, whatever chapters the lines before it made.
C9_MalformedLineIsFatal ==
  (prog = "overwrite" /\ entry = "main" /\ MalformedLines(chapters_file) # {}) =>
    /\ pc \in {"read_chapters", "exit"}
    /\ line_number <= FirstOf(MalformedLines(chapters_file))
    /\ line_number = FirstOf(MalformedLines(chapters_file)) =>
         (pc = "exit" /\ error_line = line_number)
    /\ pc = "exit" => error_line = FirstOf(MalformedLines(chapters_file))
    /\ ~metadata_file /\ metadata = <<>> /\ ~muxed

\* C9 witness: the run exited at a malformed third line after two lines that
\* made chapters
C9_Witness ==
  /\ prog = "overwrite" /\ entry = "main" /\ pc = "exit"
  /\ error_line = 3 /\ Len(chapters) = 2

\* what each character of a title is to become
EscapeOf(ch) ==
  CASE ch = "\\" -> <<"\\", "\\">>
    [] ch = ";" -> <<"\\", ";">>
    [] ch = "\n" -> <<"\\", "n">>
    [] ch = "\r" -> <<"\\", "r">>
    [] OTHER -> <<ch>>

RECURSIVE EachEscaped(_)
EachEscaped(str) ==
  IF str = <<>> THEN <<>> ELSE EscapeOf(Head(str)) \o EachEscaped(Tail(str))

\* one pass from the left, a backslash taking the character after it
RECURSIVE Unescaped(_)
Unescaped(str) ==
  IF str = <<>> THEN <<>>
  ELSE IF Head(str) = "\\" /\ Len(str) >= 2
    THEN <<CASE str[2] = "n" -> "\n" [] str[2] = "r" -> "\r" [] OTHER -> str[2]>>
           \o Unescaped(SubSeq(str, 3, Len(str)))
  ELSE <<Head(str)>> \o Unescaped(Tail(str))

\* C10: the title written for a chapter is its title with every backslash,
\* semicolon, newline and carriage return turned into one backslash-prefixed
\* escape and nothing else changed, no backslash of an escape being escaped
\* again; unescaping it in one pass from the left gives the title back.
C10_TitleEscapedOnce ==
  prog = "overwrite" =>
    \A k \in DOMAIN metadata :
      /\ metadata[k].title = EachEscaped(chapters[k].title)
      /\ Unescaped(metadata[k].title) = chapters[k].title

\* C10 witness: a title holding a backslash followed by n, and a newline, was
\* written
C10_Witness ==
  /\ prog = "overwrite" /\ pc = "done"
  /\ \E k \in DOMAIN metadata :
       /\ \E j \in 1..(Len(chapters[k].title) - 1) :
            chapters[k].title[j] = "\\" /\ chapters[k].title[j + 1] = "n"
       /\ \E j \in DOMAIN chapters[k].title : chapters[k].title[j] = "\n"

\* the exact Decimal durations of the lines of the file that make chapters
RECURSIVE ExactDurations(_, _)
ExactDurations(file, n) ==
  IF n > Len(file) THEN <<>>
  ELSE IF strip(file[n]) # <<>> /\ Head(strip(file[n])) # "#"
          /\ IsChapterLine(strip(file[n]))
    THEN <<parse_duration(match_groups(strip(file[n])).duration_str).decimal>>
           \o ExactDurations(file, n + 1)
  ELSE ExactDurations(file, n + 1)

MaxOf(S) == CHOOSE n \in S : \A o \in S : n >= o

\* the sum of the first n of the durations ds, over 10^scale
RECURSIVE ExactSum(_, _, _)
ExactSum(ds, n, scale) ==
  IF n = 0 THEN <<>>
  ELSE BAdd(ExactSum(ds, n - 1, scale), BMulPow10(ds[n].N, scale - ds[n].k))

\* ms is an integer nearest to 1000 * N / 10^scale
NearestMillisecond(ms, N, scale) ==
  BCmp(BMulSmall(BAbsDiff(BMulPow10(BFromInt(ms), scale), BMulSmall(N, 1000)), 2),
       BMulPow10(<<1>>, scale)) <= 0

\* C7: the START of chapter i is 1000 times the exact sum of the durations of
\* the chapters before it rounded to the nearest integer, and its END the same
\* with its own duration added.
C7_ExactMilliseconds ==
  (prog = "overwrite" /\ entry = "main") =>
    LET ds == ExactDurations(chapters_file, 1)
        scale == MaxOf({0} \cup {ds[n].k : n \in DOMAIN ds})
    IN \A i \in DOMAIN metadata :
         /\ NearestMillisecond(metadata[i].START, ExactSum(ds, i - 1, scale), scale)
         /\ NearestMillisecond(metadata[i].END, ExactSum(ds, i, scale), scale)

\* C1: the chapter blocks written are contiguous, by create_metadata_file and
\* by combine_files alike: the first START is 0 and every END is the START of
\* the block after it.
C1_Contiguous ==
  /\ prog = "overwrite" =>
       /\ metadata # <<>> => metadata[1].START = 0
       /\ \A i \in 1..(Len(metadata) - 1) : metadata[i].END = metadata[i + 1].START
  /\ prog = "combine" =>
       /\ chapter_blocks # <<>> => chapter_blocks[1].START = 0
       /\ \A i \in 1..(Len(chapter_blocks) - 1) :
            chapter_blocks[i].END = chapter_blocks[i + 1].START

\* C1 witness: three chapters written from a chapters file, with boundaries
\* that are no whole number of milliseconds
C1_Witness ==
  /\ prog = "overwrite" /\ entry = "main" /\ pc = "done"
  /\ Len(metadata) = 3
  /\ chapters_file[1] = LineTie /\ chapters_file[2] = LineTie

\* C1 witness for combine_files: three chapters written from three parts
C1_WitnessCombine ==
  /\ prog = "combine" /\ pc = "done" /\ result = "True"
  /\ Len(chapter_blocks) = 3
  /\ ffprobe_durations[1] = Duration0000500

(***************************************************************************)
(* combine_audio.py, as the claims speak of it                             *)
(***************************************************************************)
\* the title the chapter at position n is to carry: the title supplied for
\* it, or the generated label
TitleFor(n) == chapter_title_of(n - 1, Len(chapter_blocks))

\* C11: every chapter block generate_chapter_metadata writes for combine_files
\* carries TIMEBASE=1/1000, a natural START, a natural END with START <= END,
\* and its title with backslash, semicolon, newline and carriage return
\* escaped as create_metadata_file escapes them, supplied or generated.
C11_BlocksEscaped ==
  prog = "combine" =>
    \A n \in DOMAIN chapter_blocks :
      /\ chapter_blocks[n].TIMEBASE = "1/1000"
      /\ chapter_blocks[n].START \in Nat
      /\ chapter_blocks[n].END \in Nat
      /\ chapter_blocks[n].START <= chapter_blocks[n].END
      /\ chapter_blocks[n].TITLE = EachEscaped(TitleFor(n))

(***************************************************************************)
(* read_chapters and main of overwrite_chapters.py, as the claims speak of *)
(* them                                                                    *)
(***************************************************************************)
\* a line read_chapters skips: blank, or a comment, once the whitespace
\* around it is removed
IsSkipped(str) == strip(str) = <<>> \/ Head(strip(str)) = "#"

\* where the last whitespace character of str is, 0 when it has none
LastSpace(str) ==
  IF \E k \in DOMAIN str : str[k] \in Whitespace
    THEN CHOOSE k \in DOMAIN str :
           /\ str[k] \in Whitespace
           /\ \A j \in (k + 1)..Len(str) : str[j] \notin Whitespace
    ELSE 0

\* the pair a chapter line stands for: the text before the whitespace ahead of
\* the duration token, and the seconds of the token
PairOf(str) ==
  LET line == strip(str)
  IN [title |-> strip(SubSeq(line, 1, LastSpace(line))),
      duration |-> parse_duration(SubSeq(line, LastSpace(line) + 1, Len(line))).value]

\* the pairs of the first n lines of the file that are not skipped, in order
RECURSIVE PairsOf(_, _)
PairsOf(file, n) ==
  IF n = 0 THEN <<>>
  ELSE IF IsSkipped(file[n]) THEN PairsOf(file, n - 1)
  ELSE Append(PairsOf(file, n - 1), PairOf(file[n]))

ReadReturned ==
  /\ prog = "overwrite" /\ entry = "main"
  /\ pc \notin {"read_chapters", "exit"}

\* C12: read_chapters skips the lines that are blank or begin with '#' once
\* the whitespace around them is removed, and makes exactly one (title,
\* duration) pair of every other line, in file order: after n lines the list
\* holds the pairs of the lines among them that are not skipped, and when it
\* returns all the lines were read.  The number reported for a malformed line
\* is its position in the file, the skipped lines before it counted.
C12_OnePairPerLine ==
  (prog = "overwrite" /\ entry = "main") =>
    /\ chapters = PairsOf(chapters_file,
                          IF error_line # 0 THEN line_number - 1 ELSE line_number)
    /\ \A n \in 1..line_number : IsSkipped(chapters_file[n]) => error_line # n
    /\ error_line # 0 =>
         /\ error_line = line_number
         /\ ~IsSkipped(chapters_file[error_line])
         /\ ~IsChapterLine(strip(chapters_file[error_line]))
    /\ ReadReturned => line_number = Len(chapters_file)

\* C12 witness: read_chapters returned two chapters from a file of three
\* lines, the comment between them skipped and the first title ending ahead
\* of two blanks
C12_Witness ==
  /\ ReadReturned
  /\ chapters_file = <<LineEscapes, LineComment, LineSpaced>>
  /\ Len(chapters) = 2
  /\ chapters[1].title = <<"a", ";", "\\", "b">>
  /\ chapters[2].title = <<"P", " ", "1">>

\* the chapters file yields no chapter: it is empty or every line is skipped
NoChapterLine == \A n \in DOMAIN chapters_file : IsSkipped(chapters_file[n])

\* C13: when the chapters file is empty or holds only blank and comment
\* lines, main never gets past read_chapters: it exits once the whole file is
\* read, on the empty list and not on a line error, no metadata file is ever
\* written and ffmpeg never runs.
C13_EmptyInputIsFatal ==
  (prog = "overwrite" /\ entry = "main" /\ NoChapterLine) =>
    /\ pc \in {"read_chapters", "exit"}
    /\ pc = "exit" =>
         /\ line_number = Len(chapters_file)
         /\ chapters = <<>>
         /\ error_line = 0
    /\ ~metadata_file /\ metadata = <<>> /\ ~muxed

\* C13 witness: main exited on a file of a blank line and a comment
C13_Witness ==
  /\ prog = "overwrite" /\ entry = "main" /\ pc = "exit"
  /\ chapters_file = <<LineBlank, LineComment>>

(***************************************************************************)
(* The listing and the extraction of extract_chapters.py, as the claims    *)
(* speak of them                                                           *)
(***************************************************************************)
\* the node a chapter of the input became, and the line printed for it
NodeOfId(id) == CHOOSE c \in NodeIdx : Node(c).id = id
LinesOfId(id) == {k \in DOMAIN printed : printed[k].id = id}
LineOfNode(c) == CHOOSE k \in DOMAIN printed : printed[k].id = Node(c).id

\* the ancestors of a node: its parent, the parent of its parent, ...
RECURSIVE AncestorsOf(_)
AncestorsOf(c) ==
  IF ParentsOf(c) = {} THEN {}
  ELSE LET p == CHOOSE q \in ParentsOf(c) : TRUE
       IN {p} \cup AncestorsOf(p)

\* line j comes after line i in a stable sort by start time
SortedAfter(i, j) ==
  \/ FLt(printed[i].start_time, printed[j].start_time)
  \/ /\ FCmp(printed[i].start_time, printed[j].start_time) = 0
     /\ \E a, b \in DOMAIN BuildInput :
          /\ a < b
          /\ BuildInput[a].id = printed[i].id
          /\ BuildInput[b].id = printed[j].id

\* C14: the listing display_chapter_hierarchy prints of the tree that
\* build_chapter_hierarchy made has one line for every chapter of the list
\* the tree was built from and no other, in the order of a stable sort by
\* start time; each line is indented by the number of ancestors of its node,
\* and between a node's line and the line of any of its children stand only
\* lines of that node's descendants.
C14_ListingIsPreorder ==
  Built =>
    /\ Len(printed) = Len(BuildInput)
    /\ \A n \in DOMAIN BuildInput : Cardinality(LinesOfId(BuildInput[n].id)) = 1
    /\ \A i, j \in DOMAIN printed : i < j => SortedAfter(i, j)
    /\ \A k \in DOMAIN printed :
         printed[k].indent = Cardinality(AncestorsOf(NodeOfId(printed[k].id)))
    /\ \A c \in NodeIdx : \A p \in ParentsOf(c) :
         /\ LineOfNode(p) < LineOfNode(c)
         /\ \A k \in (LineOfNode(p) + 1)..(LineOfNode(c) - 1) :
              p \in AncestorsOf(NodeOfId(printed[k].id))

\* C14 witness: a listing of as many lines as a list may have chapters, with
\* two chapters that start together and a top-level chapter after a nested one
C14_Witness ==
  /\ Built
  /\ Len(printed) = MaxChapters
  /\ \E i, j \in DOMAIN BuildInput :
       i # j /\ FCmp(BuildInput[i].start_time, BuildInput[j].start_time) = 0
  /\ \E k \in 2..Len(printed) : printed[k].indent < printed[k - 1].indent

\* where in the filtered list the chapter with this id stands
PlaceOf(id) == CHOOSE k \in DOMAIN filtered : filtered[k].id = id

\* the chapters of the filtered list passed so far that were neither
\* extracted nor tried before: ffmpeg failed on them, or they repeat the
\* title, start and end of an earlier one
Unnamed ==
  {k \in 1..(ei - 1) : \A j \in DOMAIN chapter_names : chapter_names[j].id # filtered[k].id}

\* a ChapterExtractor was constructed: its counter starts at 1
ExtractorMade == chapter_counter >= 1

\* C15: the k-th file name ChapterExtractor.extract_chapters records carries
\* the number k, so the names are numbered 1..n with no gap and no repeat; the
\* counter is one past the last number, and the names stand in the order of
\* their chapters in the filtered list, whatever chapters failed or were
\* skipped as already processed.
C15_NamesAreSequential ==
  (prog = "extract" /\ mode = "extract" /\ ExtractorMade) =>
    /\ \A k \in DOMAIN chapter_names : chapter_names[k].n = k
    /\ chapter_counter = Len(chapter_names) + 1
    /\ \A i, j \in DOMAIN chapter_names :
         i < j => PlaceOf(chapter_names[i].id) < PlaceOf(chapter_names[j].id)

\* C15 witness: of three chapters the first failed, the second was skipped as
\* already processed, and the third was extracted to the file numbered 1
C15_Witness ==
  /\ prog = "extract" /\ mode = "extract" /\ pc = "done"
  /\ Len(filtered) = 3
  /\ Unnamed = {1, 2}
  /\ Cardinality(processed_chapters) = 2
  /\ Len(chapter_names) = 1 /\ chapter_names[1].n = 1

\* the part files of the run that are on the disk
PartsLeft == on_disk \cap PartsOnDisk(Len(part_files))

\* C16: in a dry run no step of main, combine_files or clean_files changes
\* the files on the disk, makes a temp file or runs ffmpeg, whatever the other
\* options are and whether or not an output is there; and when combine_files
\* returns after finding part files, it returns True.
C16_DryRunChangesNothing ==
  [][(prog = "combine" /\ dry_run) =>
       /\ on_disk' = on_disk
       /\ temp_files' = temp_files
       /\ ffmpeg_runs' = ffmpeg_runs
       /\ (pc = "start" /\ part_files # <<>>) => (pc' = "done" /\ result' = "True")]_vars

\* C16 witness: a dry run with --combine and --clean ended after combine_files
\* returned True and clean_files found the output and the part files there
C16_Witness ==
  /\ prog = "combine" /\ dry_run /\ pc = "exit"
  /\ args.combine /\ args.clean
  /\ result = "True"
  /\ <<"output">> \in on_disk
  /\ Len(part_files) = MaxParts
  /\ PartsLeft = PartsOnDisk(MaxParts)

\* C17: a step deletes part files only in clean_files and only when the
\* combined output is there; and once combine_files has failed, by returning
\* False or by raising, in a run that is not dry, every part file stays on
\* the disk to the end of the run, --clean given or not.
C17_PartsKeptUnlessCombined ==
  [][prog = "combine" =>
       /\ PartsLeft' # PartsLeft => (pc = "clean" /\ <<"output">> \in on_disk)
       /\ (args.combine /\ ~dry_run /\ result \in {"False", "raised"}) =>
            PartsLeft' = PartsOnDisk(Len(part_files))]_vars

\* C17 witness: with --combine and --clean the combination failed at the
\* concatenation, an output was left on the disk, and the run ended with
\* every part file still there
C17_Witness ==
  /\ prog = "combine" /\ ~dry_run /\ pc = "exit"
  /\ args.combine /\ args.clean
  /\ result = "False"
  /\ <<"output">> \in on_disk
  /\ Len(part_files) = MaxParts
  /\ PartsLeft = PartsOnDisk(MaxParts)

\* the Decimal duration ffprobe printed for the temp file of part i
DurationOfPart(i) == DecimalOf(ffprobe_durations[i])

\* the sum of the durations of the first n parts, exactly
RECURSIVE SumOfParts(_)
SumOfParts(n) ==
  IF n = 0 THEN [N |-> <<>>, k |-> 0]
  ELSE LET a == SumOfParts(n - 1)
           b == DurationOfPart(n)
           k == IF a.k >= b.k THEN a.k ELSE b.k
       IN [N |-> BAdd(BMulPow10(a.N, k - a.k), BMulPow10(b.N, k - b.k)), k |-> k]

\* the chapter metadata file has just been written
MetadataWritten == prog = "combine" /\ pc = "add_chapters"

\* C18: when combine_files has written the chapter metadata, there is one
\* chapter block per part file, in part order; the block of the i-th part
\* carries the i-th supplied title when titles were supplied, starts at the
\* summed durations of the parts before it and ends one duration of its own
\* later, in milliseconds.
C18_OneChapterPerPart ==
  MetadataWritten =>
    /\ Len(chapter_blocks) = Len(part_files)
    /\ \A i \in DOMAIN chapter_blocks :
         /\ chapter_titles # <<>> => chapter_blocks[i].TITLE = chapter_titles[i]
         /\ chapter_blocks[i].START = decimal_ms(SumOfParts(i - 1))
         /\ chapter_blocks[i].END = decimal_ms(SumOfParts(i))

\* the names of the temporary files of combine_files
TemporaryFiles ==
  {<<"_temp_", i>> : i \in 0..(Len(part_files) - 1)}
    \cup {<<"_temp_file_list.txt">>, <<"_temp_chapters_metadata.txt">>,
          <<"_temp_cover.jpg">>, <<".tmp.m4b">>}

\* C19: once combine_files has returned True from a run that is not dry, none
\* of its temporary files is on the disk: no _temp_<i>.m4b, no file list, no
\* chapter metadata file, no cover image, no .tmp.m4b.
C19_NoTemporaryFileLeft ==
  (prog = "combine" /\ ~dry_run /\ result = "True") =>
    on_disk \cap TemporaryFiles = {}

====
